---- MODULE Spec2Model ----
(***************************************************************************)
(* UniversalFinancialStreamer (src/app.py): row grouping by vertical       *)
(* proximity, column-baseline clustering, column indexing, numeric         *)
(* tagging/masking and page serialisation, with the two run counters.      *)
(*                                                                         *)
(* Representation.                                                         *)
(*  - A text is a sequence of characters; a character is a one-element     *)
(*    string.  Non-ASCII characters are named: "TRI_W" is the white        *)
(*    triangle, "TRI_B" the black triangle, "FW0".."FW9" the full-width    *)
(*    digits, "FW," and "FW." the full-width comma and full stop, "YEN"    *)
(*    the kanji unit after an amount.                                      *)
(*  - A word is [text, x0, top].  Coordinates and tolerances are Python    *)
(*    floats (pdfplumber delivers x0 and top as floats; an int tolerance   *)
(*    is converted when it meets one, exactly).  A float is modelled bit   *)
(*    for bit: x + t and x - b are the exact results rounded to 53         *)
(*    significant bits, ties to even, comparisons are exact, int(x) cuts   *)
(*    the fraction.  On whole numbers this is integer arithmetic.          *)
(*  - The output text is kept structured: f"{n:03d}" is modelled by Fmt03  *)
(*    (a digit sequence); a tagged text is a sequence of pieces, each a    *)
(*    verbatim character or a marker <v_id:payload>; a line is a row id,   *)
(*    a base x and its fragments; a page entry is its header numbers and   *)
(*    its lines.  "\n".join and "\n\n".join keep the order of the pieces.  *)
(***************************************************************************)
EXTENDS Integers, Sequences, FiniteSets, TLC

VARIABLES
    x_tolerance,    \* self.x_tolerance
    y_tolerance,    \* self.y_tolerance
    mask_numbers,   \* self.mask_numbers
    row_counter,    \* self.row_counter
    val_counter,    \* self.val_counter
    pdf,            \* the opened document: the word list of each page
    page_i,         \* number of pages the loop of process_pdf has consumed
    full_output,    \* local full_output of process_pdf
    rows,           \* local rows of the last _generate_page_stream call
    col_baselines,  \* local col_baselines of the last _generate_page_stream call
    output,         \* value returned by the current process_pdf call
    pc,             \* "idle" | "running" | "done"
    runs,           \* number of process_pdf calls started on this object
    twin,           \* a second streamer, same tolerances, opposite mask flag
    probe           \* one direct call of _cluster_coordinates / _get_col_index

vars == <<x_tolerance, y_tolerance, mask_numbers, row_counter, val_counter, pdf,
          page_i, full_output, rows, col_baselines, output, pc, runs, twin, probe>>

-----------------------------------------------------------------------------
(* Bounds of the model *)

MaxPages == 2
MaxRunTokens == 1
MaxPageTokens == 3
MaxRuns == 2
MaxCoords == 3

(* Constructor defaults *)
DefaultXTolerance == 20
DefaultYTolerance == 11

-----------------------------------------------------------------------------
(* Characters *)

AsciiDigits == {"0", "1", "2", "3", "4", "5", "6", "7", "8", "9"}
FullwidthDigits == {"FW0", "FW1", "FW2", "FW3", "FW4", "FW5", "FW6", "FW7", "FW8", "FW9"}

\* [0-9０-９]
IsDigitChar(c) == c \in AsciiDigits \cup FullwidthDigits

\* [△▲-]
IsSignChar(c) == c \in {"TRI_W", "TRI_B", "-"}

\* [0-9０-９,，.．]
IsNumBodyChar(c) == IsDigitChar(c) \/ c \in {",", "FW,", ".", "FW."}

DigitChars == <<"0", "1", "2", "3", "4", "5", "6", "7", "8", "9">>

RECURSIVE Digits(_)
Digits(n) ==
    IF n < 10 THEN <<DigitChars[n + 1]>>
    ELSE Digits(n \div 10) \o <<DigitChars[(n % 10) + 1]>>

\* f"{n:03d}": decimal digits, zero-padded to three characters or more, the
\* minus sign of a negative n counted
Fmt03(n) ==
    LET d == Digits(IF n < 0 THEN -n ELSE n)
    IN  IF n < 0
        THEN IF Len(d) >= 2 THEN <<"-">> \o d ELSE <<"-", "0">> \o d
        ELSE IF Len(d) >= 3 THEN d
        ELSE IF Len(d) = 2 THEN <<"0">> \o d
        ELSE <<"0", "0">> \o d

-----------------------------------------------------------------------------
(* Python float (IEEE-754 binary64, round to nearest, ties to even)         *)
(*                                                                          *)
(* A number is [neg, mag]: mag is its magnitude in units of 2^-60, written  *)
(* in base 2^20 as a sequence of limbs, least significant first, without    *)
(* leading zero limbs (<<>> is zero; 10.0 is <<0, 0, 0, 10>>).  Every       *)
(* binary64 value that is 0 or at least 2^-8 in magnitude is such a         *)
(* number, and sums and differences of such numbers are computed exactly    *)
(* and then rounded to 53 significant bits, as the hardware does.           *)

LimbBits == 20
LimbBase == 1048576
FracLimbs == 3
MantissaBits == 53

RECURSIVE Pow2(_)
Pow2(n) == IF n = 0 THEN 1 ELSE 2 * Pow2(n - 1)

\* mag without leading zero limbs
RECURSIVE MagNorm(_)
MagNorm(m) ==
    IF m # <<>> /\ m[Len(m)] = 0 THEN MagNorm(SubSeq(m, 1, Len(m) - 1)) ELSE m

\* -1, 0 or 1 as a < b, a = b or a > b, comparing the limbs k, k - 1, ..., 1
RECURSIVE MagCmpFrom(_, _, _)
MagCmpFrom(a, b, k) ==
    IF k = 0 THEN 0
    ELSE IF a[k] < b[k] THEN -1
    ELSE IF a[k] > b[k] THEN 1
    ELSE MagCmpFrom(a, b, k - 1)

MagCmp(a, b) ==
    IF Len(a) < Len(b) THEN -1
    ELSE IF Len(a) > Len(b) THEN 1
    ELSE MagCmpFrom(a, b, Len(a))

MagLimb(m, k) == IF k <= Len(m) THEN m[k] ELSE 0

\* a + b from limb k on, with the carry of the limbs below
RECURSIVE MagAddFrom(_, _, _, _)
MagAddFrom(a, b, k, carry) ==
    IF k > Len(a) /\ k > Len(b)
    THEN IF carry = 0 THEN <<>> ELSE <<carry>>
    ELSE LET s == MagLimb(a, k) + MagLimb(b, k) + carry
         IN  <<s % LimbBase>> \o MagAddFrom(a, b, k + 1, s \div LimbBase)

MagAdd(a, b) == MagAddFrom(a, b, 1, 0)

\* a - b (a >= b) from limb k on, with the borrow of the limbs below
RECURSIVE MagSubFrom(_, _, _, _)
MagSubFrom(a, b, k, borrow) ==
    IF k > Len(a) THEN <<>>
    ELSE LET d == a[k] - MagLimb(b, k) - borrow
         IN  IF d < 0 THEN <<d + LimbBase>> \o MagSubFrom(a, b, k + 1, 1)
             ELSE <<d>> \o MagSubFrom(a, b, k + 1, 0)

MagSub(a, b) == MagNorm(MagSubFrom(a, b, 1, 0))

\* Number of bits of a limb
RECURSIVE LimbLen(_)
LimbLen(v) == IF v = 0 THEN 0 ELSE 1 + LimbLen(v \div 2)

MagBitLen(m) == IF m = <<>> THEN 0 ELSE (Len(m) - 1) * LimbBits + LimbLen(m[Len(m)])

\* 2^d
MagPow2(d) == [k \in 1..(d \div LimbBits) |-> 0] \o <<Pow2(d % LimbBits)>>

\* m mod 2^d
MagLowBits(m, d) ==
    LET q == d \div LimbBits
    IN  IF q >= Len(m) THEN m
        ELSE MagNorm(SubSeq(m, 1, q) \o <<m[q + 1] % Pow2(d % LimbBits)>>)

\* Bit d of m (bit 0 is the least significant)
MagBit(m, d) == (MagLimb(m, (d \div LimbBits) + 1) \div Pow2(d % LimbBits)) % 2

\* Number of zero limbs at the low end of m, counted from limb k on
RECURSIVE MagLowZeros(_, _)
MagLowZeros(m, k) == IF k <= Len(m) /\ m[k] = 0 THEN 1 + MagLowZeros(m, k + 1) ELSE 0

\* m rounded to MantissaBits significant bits, ties to even; sticky says that
\* the exact value lies above m by less than one unit.  Nothing is cut when the
\* bits below the MantissaBits leading ones are zero.
MagRound(m, sticky) ==
    LET len == MagBitLen(m)
    IN  IF len <= MantissaBits THEN m
        ELSE IF ~sticky /\ len - MantissaBits <= LimbBits * MagLowZeros(m, 1) THEN m
        ELSE LET d    == len - MantissaBits
                 low  == MagLowBits(m, d)
                 down == MagSub(m, low)
                 c    == MagCmp(low, MagPow2(d - 1))
                 up   == c > 0 \/ (c = 0 /\ (sticky \/ MagBit(m, d) = 1))
             IN  IF up THEN MagAdd(down, MagPow2(d)) ELSE down

Num(neg, mag) == [neg |-> neg /\ mag # <<>>, mag |-> mag]

\* Limbs of the natural number n
RECURSIVE NatLimbs(_)
NatLimbs(n) == IF n = 0 THEN <<>> ELSE <<n % LimbBase>> \o NatLimbs(n \div LimbBase)

\* float(n) for an int n (exact below 2^53)
FromInt(n) ==
    IF n = 0 THEN Num(FALSE, <<>>)
    ELSE Num(n < 0, [k \in 1..FracLimbs |-> 0] \o NatLimbs(IF n < 0 THEN -n ELSE n))

\* Quotient limbs and remainder of m divided by the small number d, from limb
\* k down
RECURSIVE MagDivFrom(_, _, _, _)
MagDivFrom(m, d, k, rem) ==
    IF k = 0 THEN [quot |-> <<>>, rem |-> rem]
    ELSE LET cur  == rem * LimbBase + m[k]
             rest == MagDivFrom(m, d, k - 1, cur % d)
         IN  [quot |-> Append(rest.quot, cur \div d), rem |-> rest.rem]

\* The float n / 100 for a natural number n: the binary64 value nearest to the
\* decimal with two places (470.19 is Hundredths(47019))
Hundredths(n) ==
    IF n = 0 THEN Num(FALSE, <<>>)
    ELSE LET num == [k \in 1..(FracLimbs + 1) |-> 0] \o NatLimbs(n)
             dv  == MagDivFrom(num, 100, Len(num), 0)
             r   == MagRound(MagNorm(dv.quot), dv.rem # 0)
         IN  Num(FALSE, Tail(r))

\* The exact sum of two numbers
RealAdd(a, b) ==
    IF a.neg = b.neg THEN Num(a.neg, MagAdd(a.mag, b.mag))
    ELSE IF MagCmp(a.mag, b.mag) >= 0 THEN Num(a.neg, MagSub(a.mag, b.mag))
    ELSE Num(b.neg, MagSub(b.mag, a.mag))

FNeg(a) == Num(~a.neg, a.mag)

\* a + b and a - b on floats: the exact result, rounded
FAdd(a, b) == LET r == RealAdd(a, b) IN Num(r.neg, MagRound(r.mag, FALSE))
FSub(a, b) == FAdd(a, FNeg(b))

\* abs(a)
FAbs(a) == Num(FALSE, a.mag)

\* a < b, a <= b, a > b
FLess(a, b) ==
    IF a.neg /\ ~b.neg THEN TRUE
    ELSE IF ~a.neg /\ b.neg THEN FALSE
    ELSE IF a.neg THEN MagCmp(a.mag, b.mag) > 0
    ELSE MagCmp(a.mag, b.mag) < 0

FLessEq(a, b) == a = b \/ FLess(a, b)
FGreater(a, b) == FLess(b, a)

\* int(a): truncation toward zero
Trunc(a) ==
    LET whole == SubSeq(a.mag, FracLimbs + 1, Len(a.mag))
        v     == IF whole = <<>> THEN 0
                 ELSE IF Len(whole) = 1 THEN whole[1]
                 ELSE whole[1] + LimbBase * whole[2]
    IN  IF a.neg THEN -v ELSE v

-----------------------------------------------------------------------------
(* _mask_text and _apply_value_id *)

\* re.sub(r'[0-9０-９]', 'x', text)
MaskText(text) ==
    [k \in 1..Len(text) |-> IF IsDigitChar(text[k]) THEN "x" ELSE text[k]]

\* raw_num.replace(',', '').replace('，', '')
StripCommas(text) == SelectSeq(text, LAMBDA c : c \notin {",", "FW,"})

\* Index of the last character of the maximal run of number-body characters
\* that starts at k (k - 1 when text[k] is none).
RECURSIVE BodyEnd(_, _)
BodyEnd(text, k) ==
    IF k <= Len(text) /\ IsNumBodyChar(text[k]) THEN BodyEnd(text, k + 1) ELSE k - 1

\* Where a match of [△▲-]?[0-9０-９,，.．]+%? that starts at k ends; 0 when the
\* pattern does not match at k.
MatchEnd(text, k) ==
    LET bodyStart == IF IsSignChar(text[k]) THEN k + 1 ELSE k
        bodyEnd   == BodyEnd(text, bodyStart)
    IN  IF bodyEnd < bodyStart THEN 0
        ELSE IF bodyEnd + 1 <= Len(text) /\ text[bodyEnd + 1] = "%" THEN bodyEnd + 1
        ELSE bodyEnd

Literal(c) == [kind |-> "lit", v_id |-> <<>>, payload |-> <<c>>]

\* replace_match, for the match raw_num when self.val_counter is vc: the marker
\* it returns (the counter becomes vc + 1)
ReplaceMatch(raw_num, vc, mask) ==
    [kind    |-> "marker",
     v_id    |-> Fmt03(vc + 1),
     payload |-> IF mask THEN MaskText(StripCommas(raw_num)) ELSE StripCommas(raw_num)]

\* re.sub(num_pattern, replace_match, text) from position k on: leftmost,
\* non-overlapping matches are replaced, every other character is copied.
RECURSIVE SubFrom(_, _, _, _, _)
SubFrom(text, k, vc, mask, acc) ==
    IF k > Len(text) THEN [text |-> acc, val_counter |-> vc]
    ELSE LET e == MatchEnd(text, k)
         IN  IF e = 0
             THEN SubFrom(text, k + 1, vc, mask, Append(acc, Literal(text[k])))
             ELSE SubFrom(text, e + 1, vc + 1, mask,
                          Append(acc, ReplaceMatch(SubSeq(text, k, e), vc, mask)))

\* Faulty variant: the text is masked before the pattern is matched
ApplyValueId_MaskFirst(text, vc, mask) ==
    SubFrom(IF mask THEN MaskText(text) ELSE text, 1, vc, mask, <<>>)

\* _apply_value_id(text) when self.val_counter is vc: the tagged text and the
\* counter afterwards
ApplyValueId(text, vc, mask) == SubFrom(text, 1, vc, mask, <<>>)

-----------------------------------------------------------------------------
(* _cluster_coordinates and _get_col_index *)

\* list.sort() on numbers
RECURSIVE InsertCoord(_, _)
InsertCoord(sorted, c) ==
    IF sorted = <<>> THEN <<c>>
    ELSE IF FLessEq(sorted[Len(sorted)], c) THEN Append(sorted, c)
    ELSE Append(InsertCoord(SubSeq(sorted, 1, Len(sorted) - 1), c), sorted[Len(sorted)])

RECURSIVE SortCoords(_)
SortCoords(coords) ==
    IF coords = <<>> THEN <<>>
    ELSE InsertCoord(SortCoords(SubSeq(coords, 1, Len(coords) - 1)), coords[Len(coords)])

\* The loop of lines 124-126 from the k-th sorted coordinate on: c opens a
\* baseline when it is greater than the float clusters[-1] + self.x_tolerance
RECURSIVE ClusterLoop(_, _, _, _)
ClusterLoop(sorted, k, clusters, xtol) ==
    IF k > Len(sorted) THEN clusters
    ELSE IF FGreater(sorted[k], FAdd(clusters[Len(clusters)], xtol))
         THEN ClusterLoop(sorted, k + 1, Append(clusters, sorted[k]), xtol)
         ELSE ClusterLoop(sorted, k + 1, clusters, xtol)

\* Faulty variant: >= in place of > at line 125
RECURSIVE ClusterLoop_GreaterEq(_, _, _, _)
ClusterLoop_GreaterEq(sorted, k, clusters, xtol) ==
    IF k > Len(sorted) THEN clusters
    ELSE IF ~FLess(sorted[k], FAdd(clusters[Len(clusters)], xtol))
         THEN ClusterLoop_GreaterEq(sorted, k + 1, Append(clusters, sorted[k]), xtol)
         ELSE ClusterLoop_GreaterEq(sorted, k + 1, clusters, xtol)

ClusterCoordinates_GreaterEq(coords, xtol) ==
    IF coords = <<>> THEN <<>>
    ELSE LET sorted == SortCoords(coords)
         IN  ClusterLoop_GreaterEq(sorted, 2, <<sorted[1]>>, xtol)

\* _cluster_coordinates(coords) with self.x_tolerance = xtol
ClusterCoordinates(coords, xtol) ==
    IF coords = <<>> THEN <<>>
    ELSE LET sorted == SortCoords(coords)
         IN  ClusterLoop(sorted, 2, <<sorted[1]>>, xtol)

\* abs(x - b) on floats
FAbsDiff(x, b) == FAbs(FSub(x, b))

\* The loop of lines 130-132 from the k-th baseline on, and line 133 at its end:
\* b qualifies when the float abs(x - b) is at most self.x_tolerance
RECURSIVE ColIndexFrom(_, _, _, _)
ColIndexFrom(x, baselines, k, xtol) ==
    IF k > Len(baselines) THEN 1
    ELSE IF FLessEq(FAbsDiff(x, baselines[k]), xtol) THEN k
    ELSE ColIndexFrom(x, baselines, k + 1, xtol)

\* Faulty variant: the nearest baseline, as the docstring of an earlier version says
GetColIndex_Nearest(x, baselines, xtol) ==
    IF baselines = <<>> THEN 1
    ELSE CHOOSE k \in 1..Len(baselines) :
            \A j \in 1..Len(baselines) :
                \/ FLess(FAbsDiff(x, baselines[k]), FAbsDiff(x, baselines[j]))
                \/ (FAbsDiff(x, baselines[k]) = FAbsDiff(x, baselines[j]) /\ k <= j)

\* _get_col_index(x, baselines) with self.x_tolerance = xtol
GetColIndex(x, baselines, xtol) == ColIndexFrom(x, baselines, 1, xtol)

-----------------------------------------------------------------------------
(* _generate_page_stream *)

\* key=lambda w: (w['top'], w['x0'])
TopX0LessEq(a, b) == FLess(a.top, b.top) \/ (a.top = b.top /\ FLessEq(a.x0, b.x0))

\* words.sort(key=(top, x0)): a stable sort
RECURSIVE InsertByTopX0(_, _)
InsertByTopX0(sorted, w) ==
    IF sorted = <<>> THEN <<w>>
    ELSE IF TopX0LessEq(sorted[Len(sorted)], w) THEN Append(sorted, w)
    ELSE Append(InsertByTopX0(SubSeq(sorted, 1, Len(sorted) - 1), w), sorted[Len(sorted)])

RECURSIVE SortByTopX0(_)
SortByTopX0(words) ==
    IF words = <<>> THEN <<>>
    ELSE InsertByTopX0(SortByTopX0(SubSeq(words, 1, Len(words) - 1)), words[Len(words)])

\* sorted(current_row, key=lambda x: x['x0']): a stable sort
RECURSIVE InsertByX0(_, _)
InsertByX0(sorted, w) ==
    IF sorted = <<>> THEN <<w>>
    ELSE IF FLessEq(sorted[Len(sorted)].x0, w.x0) THEN Append(sorted, w)
    ELSE Append(InsertByX0(SubSeq(sorted, 1, Len(sorted) - 1), w), sorted[Len(sorted)])

RECURSIVE SortedByX0(_)
SortedByX0(row) ==
    IF row = <<>> THEN <<>>
    ELSE InsertByX0(SortedByX0(SubSeq(row, 1, Len(row) - 1)), row[Len(row)])

\* Faulty variant: last_y follows every word appended to the row
RECURSIVE GroupLoop_Chained(_, _, _, _, _, _)
GroupLoop_Chained(sorted, k, acc, current_row, last_y, ytol) ==
    IF k > Len(sorted) THEN Append(acc, current_row)
    ELSE IF FLessEq(FAbsDiff(sorted[k].top, last_y), ytol)
         THEN GroupLoop_Chained(sorted, k + 1, acc, Append(current_row, sorted[k]),
                                sorted[k].top, ytol)
         ELSE GroupLoop_Chained(sorted, k + 1, Append(acc, SortedByX0(current_row)),
                                <<sorted[k]>>, sorted[k].top, ytol)

\* The loop of lines 43-49 from the k-th sorted word on, and line 50 at its end:
\* a closed row is appended sorted by x0, the last row as it stands.
RECURSIVE GroupLoop(_, _, _, _, _, _)
GroupLoop(sorted, k, acc, current_row, last_y, ytol) ==
    IF k > Len(sorted) THEN Append(acc, current_row)
    ELSE IF FLessEq(FAbsDiff(sorted[k].top, last_y), ytol)
         THEN GroupLoop(sorted, k + 1, acc, Append(current_row, sorted[k]), last_y, ytol)
         ELSE GroupLoop(sorted, k + 1, Append(acc, SortedByX0(current_row)),
                        <<sorted[k]>>, sorted[k].top, ytol)

\* Step 1 of _generate_page_stream (words is not empty)
GroupRows(words, ytol) ==
    LET sorted == SortByTopX0(words)
    IN  GroupLoop(sorted, 1, <<>>, <<>>, sorted[1].top, ytol)

\* [w['x0'] for row in rows for w in row]
RECURSIVE AllXStarts(_)
AllXStarts(rs) ==
    IF rs = <<>> THEN <<>>
    ELSE [k \in 1..Len(rs[1]) |-> rs[1][k].x0] \o AllXStarts(Tail(rs))

\* The loop of lines 66-75 from the k-th word of the row on
RECURSIVE FragLoop(_, _, _, _, _, _, _)
FragLoop(row, k, baselines, vc, xtol, mask, acc) ==
    IF k > Len(row) THEN [frags |-> acc, val_counter |-> vc]
    ELSE LET w      == row[k]
             tagged == ApplyValueId(w.text, vc, mask)
             frag   == [col_idx     |-> GetColIndex(w.x0, baselines, xtol),
                        x           |-> Fmt03(Trunc(w.x0)),
                        tagged_text |-> tagged.text]
         IN  FragLoop(row, k + 1, baselines, tagged.val_counter, xtol, mask,
                      Append(acc, frag))

\* The loop of lines 58-76 from the k-th row on
RECURSIVE LineLoop(_, _, _, _, _, _, _, _)
LineLoop(rs, k, baselines, rc, vc, xtol, mask, acc) ==
    IF k > Len(rs) THEN [lines |-> acc, row_counter |-> rc, val_counter |-> vc]
    ELSE IF rs[k] = <<>> THEN LineLoop(rs, k + 1, baselines, rc, vc, xtol, mask, acc)
    ELSE LET fr   == FragLoop(rs[k], 1, baselines, vc, xtol, mask, <<>>)
             line == [row_id |-> Fmt03(rc + 1),
                      base_x |-> Fmt03(Trunc(rs[k][1].x0)),
                      frags  |-> fr.frags]
         IN  LineLoop(rs, k + 1, baselines, rc + 1, fr.val_counter, xtol, mask,
                      Append(acc, line))

\* Faulty variant: the rows of every page are numbered from 1
GeneratePageStream_RowIdsPerPage(words, rc, vc, xtol, ytol, mask) ==
    LET rs        == GroupRows(words, ytol)
        baselines == ClusterCoordinates(AllXStarts(rs), xtol)
        res       == LineLoop(rs, 1, baselines, 0, vc, xtol, mask, <<>>)
    IN  [page_stream   |-> res.lines,
         col_baselines |-> baselines,
         rows          |-> rs,
         row_counter   |-> rc + res.row_counter,
         val_counter   |-> res.val_counter]

\* _generate_page_stream(words) on a streamer whose counters are rc and vc
GeneratePageStream(words, rc, vc, xtol, ytol, mask) ==
    LET rs        == GroupRows(words, ytol)
        baselines == ClusterCoordinates(AllXStarts(rs), xtol)
        res       == LineLoop(rs, 1, baselines, rc, vc, xtol, mask, <<>>)
    IN  [page_stream   |-> res.lines,
         col_baselines |-> baselines,
         rows          |-> rs,
         row_counter   |-> res.row_counter,
         val_counter   |-> res.val_counter]

\* Faulty variant: the header prints i, not i + 1
PageEntry_ZeroBased(i, page) ==
    [page |-> i, columns |-> Len(page.col_baselines), lines |-> page.page_stream]

\* f"{header}\n{page_stream}" for the page at 0-based index i
PageEntry(i, page) ==
    [page |-> i + 1, columns |-> Len(page.col_baselines), lines |-> page.page_stream]

-----------------------------------------------------------------------------
(* Inputs *)

SeqsUpTo(S, n) == UNION {[1..k -> S] : k \in 0..n}

Word(t, x, y) == [text |-> t, x0 |-> x, top |-> y]

T_Revenue  == <<"R", "e", "v", "e", "n", "u", "e">>
T_1234     == <<"1", ",", "2", "3", "4">>
T_Paren567 == <<"(", "5", "6", "7", ")">>
T_Mixed    == <<"TRI_B", "FW1", "FW,", "2", "%", "YEN", "7", ".", "5", "-">>
T_Dash     == <<"-">>

\* x0 = 10.0, 200.0, 10.0, 50.2, 30.2; top = 100.0, 100.0, 120.0, 105.0, 110.0
W_Revenue  == Word(T_Revenue, FromInt(10), FromInt(100))
W_1234     == Word(T_1234, FromInt(200), FromInt(100))
W_Paren567 == Word(T_Paren567, FromInt(10), FromInt(120))
W_Mixed    == Word(T_Mixed, Hundredths(5020), FromInt(105))
W_Dash     == Word(T_Dash, Hundredths(3020), FromInt(110))

\* Words of the pages of a several-page document
RunTokens == {W_Mixed, W_Paren567}
\* Words of the page of a one-page document
PageTokens == {W_Revenue, W_Paren567, W_Mixed, W_Dash}

\* Revenue / 1,234 / (567)
ScenarioPage == <<W_Revenue, W_1234, W_Paren567>>

XTols == {FromInt(0), FromInt(DefaultXTolerance)}
YTols == {FromInt(0), FromInt(5)}

RunPages == SeqsUpTo(RunTokens, MaxRunTokens)
Docs == SeqsUpTo(RunPages, MaxPages)
        \cup {<<p>> : p \in SeqsUpTo(PageTokens, MaxPageTokens)}
        \cup {<<ScenarioPage>>}

\* Arguments of direct calls: 0.0, 30.2, 50.2, 470.19, 520.19, and the x
\* tolerances 0, 20 and 50
CoordValues == {FromInt(0), Hundredths(3020), Hundredths(5020),
                Hundredths(47019), Hundredths(52019)}
CoordLists == SeqsUpTo(CoordValues, MaxCoords)
FnXTols == XTols \cup {FromInt(50)}

NoProbe == [fn |-> "none", called |-> FALSE, coords |-> <<>>, x |-> FromInt(0),
            ret_clusters |-> <<>>, ret_idx |-> 0]

ProbeInputs ==
    {[fn |-> "cluster", called |-> FALSE, coords |-> c, x |-> FromInt(0),
      ret_clusters |-> <<>>, ret_idx |-> 0] : c \in CoordLists}
    \cup
    {[fn |-> "col", called |-> FALSE, coords |-> b, x |-> v,
      ret_clusters |-> <<>>, ret_idx |-> 0] : b \in CoordLists, v \in CoordValues}

-----------------------------------------------------------------------------
(* __init__ *)

NewTwin(mask) ==
    [mask_numbers |-> mask, row_counter |-> 0, val_counter |-> 0,
     full_output |-> <<>>, output |-> <<>>]

Constructed(xtol, ytol, mask) ==
    /\ x_tolerance = xtol
    /\ y_tolerance = ytol
    /\ mask_numbers = mask
    /\ row_counter = 0
    /\ val_counter = 0
    /\ pdf = <<>>
    /\ page_i = 0
    /\ full_output = <<>>
    /\ rows = <<>>
    /\ col_baselines = <<>>
    /\ output = <<>>
    /\ pc = "idle"
    /\ runs = 0
    /\ twin = NewTwin(~mask)

Init ==
    /\ \E xtol \in XTols, ytol \in YTols, mask \in BOOLEAN : Constructed(xtol, ytol, mask)
    /\ probe = NoProbe

-----------------------------------------------------------------------------
(* process_pdf *)

\* Faulty variant: the counter is not reset
CounterAtStart_Keep(old) == old

\* self.row_counter = 0 ; self.val_counter = 0
CounterAtStart(old) == 0

\* Lines 15-19: the call starts on the document doc
StartRunSelf(doc) ==
    /\ pc = "idle"
    /\ runs < MaxRuns
    /\ runs' = runs + 1
    /\ row_counter' = CounterAtStart(row_counter)
    /\ val_counter' = CounterAtStart(val_counter)
    /\ full_output' = <<>>
    /\ pdf' = doc
    /\ page_i' = 0
    /\ pc' = "running"
    /\ UNCHANGED <<x_tolerance, y_tolerance, mask_numbers, rows, col_baselines, output>>

\* Lines 20-27: the next page delivers no words
SkipEmptyPageSelf ==
    /\ pc = "running"
    /\ page_i < Len(pdf)
    /\ pdf[page_i + 1] = <<>>
    /\ page_i' = page_i + 1
    /\ UNCHANGED <<x_tolerance, y_tolerance, mask_numbers, row_counter, val_counter,
                   pdf, full_output, rows, col_baselines, output, pc, runs>>

\* Lines 20-33: the next page delivers words
ProcessPageSelf ==
    /\ pc = "running"
    /\ page_i < Len(pdf)
    /\ pdf[page_i + 1] # <<>>
    /\ LET page == GeneratePageStream(pdf[page_i + 1], row_counter, val_counter,
                                      x_tolerance, y_tolerance, mask_numbers)
       IN  /\ full_output' = Append(full_output, PageEntry(page_i, page))
           /\ row_counter' = page.row_counter
           /\ val_counter' = page.val_counter
           /\ rows' = page.rows
           /\ col_baselines' = page.col_baselines
    /\ page_i' = page_i + 1
    /\ UNCHANGED <<x_tolerance, y_tolerance, mask_numbers, pdf, output, pc, runs>>

\* Line 34: the loop is over, the joined output is returned
FinishRunSelf ==
    /\ pc = "running"
    /\ page_i = Len(pdf)
    /\ output' = full_output
    /\ pc' = "done"
    /\ UNCHANGED <<x_tolerance, y_tolerance, mask_numbers, row_counter, val_counter,
                   pdf, page_i, full_output, rows, col_baselines, runs>>

\* The caller has the returned text (lines 171-174): the call's locals and the
\* document are gone, the object keeps its fields
ReturnToCallerSelf ==
    /\ pc = "done"
    /\ pc' = "idle"
    /\ pdf' = <<>>
    /\ page_i' = 0
    /\ full_output' = <<>>
    /\ rows' = <<>>
    /\ col_baselines' = <<>>
    /\ output' = <<>>
    /\ UNCHANGED <<x_tolerance, y_tolerance, mask_numbers, row_counter, val_counter, runs>>

StartRun == (\E doc \in Docs : StartRunSelf(doc)) /\ UNCHANGED <<twin, probe>>
SkipEmptyPage == SkipEmptyPageSelf /\ UNCHANGED <<twin, probe>>
ProcessPage == ProcessPageSelf /\ UNCHANGED <<twin, probe>>
FinishRun == FinishRunSelf /\ UNCHANGED <<twin, probe>>
ReturnToCaller == ReturnToCallerSelf /\ UNCHANGED <<twin, probe>>

Next == StartRun \/ SkipEmptyPage \/ ProcessPage \/ FinishRun \/ ReturnToCaller

Spec == Init /\ [][Next]_vars

-----------------------------------------------------------------------------
(* Two streamers with the same tolerances and opposite mask flags, each     *)
(* running process_pdf on the same document, page by page.                  *)

PairStartRun ==
    /\ \E doc \in Docs : StartRunSelf(doc)
    /\ twin' = [twin EXCEPT !.row_counter = CounterAtStart(twin.row_counter),
                            !.val_counter = CounterAtStart(twin.val_counter),
                            !.full_output = <<>>]
    /\ UNCHANGED probe

PairSkipEmptyPage == SkipEmptyPageSelf /\ UNCHANGED <<twin, probe>>

PairProcessPage ==
    /\ ProcessPageSelf
    /\ LET page == GeneratePageStream(pdf[page_i + 1], twin.row_counter, twin.val_counter,
                                      x_tolerance, y_tolerance, twin.mask_numbers)
       IN  twin' = [twin EXCEPT !.full_output = Append(twin.full_output, PageEntry(page_i, page)),
                                !.row_counter = page.row_counter,
                                !.val_counter = page.val_counter]
    /\ UNCHANGED probe

PairFinishRun ==
    /\ FinishRunSelf
    /\ twin' = [twin EXCEPT !.output = twin.full_output]
    /\ UNCHANGED probe

PairReturnToCaller ==
    /\ ReturnToCallerSelf
    /\ twin' = [twin EXCEPT !.full_output = <<>>, !.output = <<>>]
    /\ UNCHANGED probe

NextPair ==
    \/ PairStartRun
    \/ PairSkipEmptyPage
    \/ PairProcessPage
    \/ PairFinishRun
    \/ PairReturnToCaller

SpecPair == Init /\ [][NextPair]_vars

-----------------------------------------------------------------------------
(* Direct calls of _cluster_coordinates and _get_col_index on a streamer    *)
(* constructed with the default y tolerance and mask flag.                  *)

InitFn ==
    /\ \E xtol \in FnXTols : Constructed(xtol, FromInt(DefaultYTolerance), FALSE)
    /\ probe \in ProbeInputs

\* _cluster_coordinates(coords): coords.sort() sorts the argument in place
CallClusterCoordinates ==
    /\ probe.fn = "cluster"
    /\ ~probe.called
    /\ probe' = [probe EXCEPT !.called = TRUE,
                              !.coords = SortCoords(probe.coords),
                              !.ret_clusters = ClusterCoordinates(probe.coords, x_tolerance)]
    /\ UNCHANGED <<x_tolerance, y_tolerance, mask_numbers, row_counter, val_counter, pdf,
                   page_i, full_output, rows, col_baselines, output, pc, runs, twin>>

\* _get_col_index(x, baselines)
CallGetColIndex ==
    /\ probe.fn = "col"
    /\ ~probe.called
    /\ probe' = [probe EXCEPT !.called = TRUE,
                              !.ret_idx = GetColIndex(probe.x, probe.coords, x_tolerance)]
    /\ UNCHANGED <<x_tolerance, y_tolerance, mask_numbers, row_counter, val_counter, pdf,
                   page_i, full_output, rows, col_baselines, output, pc, runs, twin>>

NextFn == CallClusterCoordinates \/ CallGetColIndex

SpecFn == InitFn /\ [][NextFn]_vars

-----------------------------------------------------------------------------
(* Reading an output *)

\* The number a digit sequence denotes
RECURSIVE IdNum(_)
IdNum(d) ==
    IF d = <<>> THEN 0
    ELSE 10 * IdNum(SubSeq(d, 1, Len(d) - 1))
         + (CHOOSE v \in 0..9 : DigitChars[v + 1] = d[Len(d)])

\* The lines of an output, in output order
RECURSIVE LinesOf(_)
LinesOf(out) == IF out = <<>> THEN <<>> ELSE out[1].lines \o LinesOf(Tail(out))

IsMarker(piece) == piece.kind = "marker"

\* The markers of a sequence of fragments, in output order
RECURSIVE MarkersOfFrags(_)
MarkersOfFrags(frags) ==
    IF frags = <<>> THEN <<>>
    ELSE SelectSeq(frags[1].tagged_text, IsMarker) \o MarkersOfFrags(Tail(frags))

RECURSIVE MarkersOfLines(_)
MarkersOfLines(lines) ==
    IF lines = <<>> THEN <<>>
    ELSE MarkersOfFrags(lines[1].frags) \o MarkersOfLines(Tail(lines))

MarkersOf(out) == MarkersOfLines(LinesOf(out))

\* The words of the page the last _generate_page_stream call was given
LastWords ==
    LET ks == {k \in 1..page_i : pdf[k] # <<>>}
    IN  pdf[CHOOSE k \in ks : \A j \in ks : j <= k]

\* A page has been serialised in this call and its locals are still there
PageDone == pc \in {"running", "done"} /\ rows # <<>>

LastEntry == full_output[Len(full_output)]

\* How many times w occurs in the sequence ws
Count(ws, w) == Cardinality({k \in 1..Len(ws) : ws[k] = w})

RECURSIVE Flatten(_)
Flatten(rs) == IF rs = <<>> THEN <<>> ELSE rs[1] \o Flatten(Tail(rs))

SortedX0(row) == \A k \in 1..(Len(row) - 1) : FLessEq(row[k].x0, row[k + 1].x0)

MinTop(row) == CHOOSE t \in {row[k].top : k \in 1..Len(row)} :
                  \A k \in 1..Len(row) : FLessEq(t, row[k].top)

-----------------------------------------------------------------------------
(* Claims *)

\* C1: within one process_pdf run the row ids in output order are 1, 2, 3, ...
\* and the value ids in output order are 1, 2, 3, ...: distinct, strictly
\* increasing, never reset at a page or row boundary, never reused.
C1_IdsIncrease ==
    LET ls == LinesOf(full_output)
        ms == MarkersOf(full_output)
    IN  /\ \A k \in 1..Len(ls) : IdNum(ls[k].row_id) = k
        /\ \A k \in 1..Len(ms) : IdNum(ms[k].v_id) = k
        /\ \A j, k \in 1..Len(ls) : j # k => ls[j].row_id # ls[k].row_id
        /\ \A j, k \in 1..Len(ms) : j # k => ms[j].v_id # ms[k].v_id

\* Two pages have been emitted, with a row on each and three markers or more
\* spread over them.
C1_Witness ==
    /\ Len(full_output) = 2
    /\ full_output[1].lines # <<>>
    /\ Len(MarkersOf(<<full_output[1]>>)) >= 1
    /\ Len(MarkersOf(full_output)) >= 3

\* C2: the rows built from a page's words hold every word exactly once and no
\* other word, and inside every row, the last one included, the words are in
\* non-decreasing x0 order.
C2_RowsPartitionSortedByX0 ==
    PageDone =>
        /\ \A r \in 1..Len(rows) : rows[r] # <<>>
        /\ Len(Flatten(rows)) = Len(LastWords)
        /\ \A k \in 1..Len(LastWords) :
               Count(Flatten(rows), LastWords[k]) = Count(LastWords, LastWords[k])
        /\ \A r \in 1..Len(rows) : SortedX0(rows[r])

\* C3: a page without words adds nothing to the output and leaves both counters
\* as they are, and the header of every emitted page carries the page's 1-based
\* position in the document, skipped pages counted.
C3_HeadersArePositions ==
    pc \in {"running", "done"} =>
        LET ks == {k \in 1..page_i : pdf[k] # <<>>}
        IN  /\ Len(full_output) = Cardinality(ks)
            /\ \A n \in 1..Len(full_output) :
                   /\ full_output[n].page \in ks
                   /\ Cardinality({k \in ks : k <= full_output[n].page}) = n
            /\ val_counter = Len(MarkersOf(full_output))
            /\ row_counter = Len(LinesOf(full_output))

\* The first page had no words and the second page has been emitted.
C3_Witness ==
    /\ pc = "running"
    /\ page_i = 2
    /\ pdf[1] = <<>>
    /\ Len(full_output) = 1
    /\ full_output[1].page = 2

\* An output with the payload of every marker blanked
RedactPiece(piece) == IF IsMarker(piece) THEN [piece EXCEPT !.payload = <<>>] ELSE piece

RedactFrag(frag) ==
    [frag EXCEPT !.tagged_text = [q \in 1..Len(frag.tagged_text) |->
                                     RedactPiece(frag.tagged_text[q])]]

RedactLine(line) ==
    [line EXCEPT !.frags = [f \in 1..Len(line.frags) |-> RedactFrag(line.frags[f])]]

Redact(out) ==
    [n \in 1..Len(out) |->
        [out[n] EXCEPT !.lines = [l \in 1..Len(out[n].lines) |-> RedactLine(out[n].lines[l])]]]

\* C4: on the same document with the same tolerances, the run with masking and
\* the run without emit the same markers with the same value ids at the same
\* places and end with equal counters; only the payloads of the markers differ.
C4_MaskingKeepsIds ==
    /\ mask_numbers # twin.mask_numbers
    /\ Redact(full_output) = Redact(twin.full_output)
    /\ Redact(output) = Redact(twin.output)
    /\ Len(MarkersOf(full_output)) = Len(MarkersOf(twin.full_output))
    /\ row_counter = twin.row_counter
    /\ val_counter = twin.val_counter

\* Both runs have returned, with two markers or more, and their texts differ.
C4_Witness ==
    /\ pc = "done"
    /\ Len(MarkersOf(output)) >= 2
    /\ output # twin.output

\* The exact distance of x and b is at most t
WithinExactly(x, b, t) == FLessEq(FAbs(RealAdd(x, FNeg(b))), t)

\* C5: _get_col_index returns the 1-based index of the first baseline b, in
\* sequence order, with |x - b| <= x_tolerance (the difference being the float
\* the program computes), and 1 when there is none: a value in
\* 1..len(baselines) for a non-empty baselines, 1 for an empty one.  A baseline
\* whose exact distance from x is at most x_tolerance is never passed over.
C5_FirstMatchElseOne ==
    (probe.fn = "col" /\ probe.called) =>
        LET b == probe.coords
            q == {k \in 1..Len(b) : FLessEq(FAbsDiff(probe.x, b[k]), x_tolerance)}
        IN  /\ q # {} => (probe.ret_idx \in q /\ \A k \in q : probe.ret_idx <= k)
            /\ q = {} => probe.ret_idx = 1
            /\ b # <<>> => probe.ret_idx \in 1..Len(b)
            /\ b = <<>> => probe.ret_idx = 1
            /\ \A k \in 1..Len(b) :
                   WithinExactly(probe.x, b[k], x_tolerance) => probe.ret_idx <= k

\* The call returned the first qualifying baseline although a later one is
\* nearer to x.
C5_Witness ==
    /\ probe.fn = "col"
    /\ probe.called
    /\ probe.coords # <<>>
    /\ probe.ret_idx = 1
    /\ FLessEq(FAbsDiff(probe.x, probe.coords[1]), x_tolerance)
    /\ \E j \in 1..Len(probe.coords) :
           FLess(FAbsDiff(probe.x, probe.coords[j]), FAbsDiff(probe.x, probe.coords[1]))

\* C6: _cluster_coordinates returns a strictly ascending sequence whose adjacent
\* elements differ by more than x_tolerance (their exact difference, and the
\* comparison of line 125 as well), whose first element is the least input, no
\* longer than the number of distinct inputs, of one element when all inputs
\* are equal, and empty for an empty input.
C6_ClustersAscendingApart ==
    (probe.fn = "cluster" /\ probe.called) =>
        LET c   == probe.coords
            ret == probe.ret_clusters
            in  == {c[k] : k \in 1..Len(c)}
        IN  /\ \A k \in 1..(Len(ret) - 1) :
                   /\ FLess(ret[k], ret[k + 1])
                   /\ FGreater(RealAdd(ret[k + 1], FNeg(ret[k])), x_tolerance)
                   /\ FGreater(ret[k + 1], FAdd(ret[k], x_tolerance))
            /\ c # <<>> => (ret # <<>> /\ \A v \in in : FLessEq(ret[1], v)) /\ ret[1] \in in
            /\ Len(ret) <= Cardinality(in)
            /\ Cardinality(in) = 1 => Len(ret) = 1
            /\ c = <<>> => ret = <<>>

\* Three distinct coordinates were clustered into two baselines.
C6_Witness ==
    /\ probe.fn = "cluster"
    /\ probe.called
    /\ Cardinality({probe.coords[k] : k \in 1..Len(probe.coords)}) = 3
    /\ Len(probe.ret_clusters) = 2

\* A text "(" digits [ "." digits ] ")"
IsParenNumeral(text) ==
    /\ Len(text) >= 3
    /\ text[1] = "("
    /\ text[Len(text)] = ")"
    /\ \A k \in 2..(Len(text) - 1) : text[k] \in AsciiDigits \cup {"."}
    /\ text[2] \in AsciiDigits
    /\ text[Len(text) - 1] \in AsciiDigits
    /\ Cardinality({k \in 2..(Len(text) - 1) : text[k] = "."}) <= 1

\* C7: a word whose whole text is a numeral in parentheses is serialised as one
\* marker whose payload is a minus sign followed by the numeral, and takes one
\* value id; the page Revenue / 1,234 / (567) with x tolerance 20 and y
\* tolerance 5 gives two rows and the two markers v_001:1234 and v_002:-567.
C7_ParenNumeralBecomesNegative ==
    /\ PageDone =>
           \A r \in 1..Len(rows) : \A k \in 1..Len(rows[r]) :
               LET text == rows[r][k].text
                   tt   == LastEntry.lines[r].frags[k].tagged_text
               IN  IsParenNumeral(text) =>
                       /\ Len(tt) = 1
                       /\ IsMarker(tt[1])
                       /\ tt[1].payload = <<"-">> \o SubSeq(text, 2, Len(text) - 1)
    /\ (/\ pc = "done"
        /\ pdf = <<ScenarioPage>>
        /\ x_tolerance = FromInt(20)
        /\ y_tolerance = FromInt(5)
        /\ ~mask_numbers) =>
           LET ms == MarkersOf(output)
           IN  /\ Len(LinesOf(output)) = 2
               /\ Len(ms) = 2
               /\ ms[1].v_id = <<"0", "0", "1">>
               /\ ms[1].payload = <<"1", "2", "3", "4">>
               /\ ms[2].v_id = <<"0", "0", "2">>
               /\ ms[2].payload = <<"-", "5", "6", "7">>

\* process_pdf on a streamer whose counters are rc and vc, from the page at
\* 0-based index i on
RECURSIVE OutputFrom(_, _, _, _, _, _, _)
OutputFrom(doc, i, rc, vc, xtol, ytol, mask) ==
    IF i >= Len(doc) THEN <<>>
    ELSE IF doc[i + 1] = <<>> THEN OutputFrom(doc, i + 1, rc, vc, xtol, ytol, mask)
    ELSE LET page == GeneratePageStream(doc[i + 1], rc, vc, xtol, ytol, mask)
         IN  <<PageEntry(i, page)>>
             \o OutputFrom(doc, i + 1, page.row_counter, page.val_counter, xtol, ytol, mask)

\* C8: both counters are 0 when a process_pdf call starts, whatever ran before
\* on the same object: the first row and the first marker of a run have id 001,
\* and what a run returns is what a new streamer with the same configuration
\* returns for that document.
C8_CountersResetEachRun ==
    /\ (pc = "running" /\ page_i = 0) => (row_counter = 0 /\ val_counter = 0)
    /\ pc \in {"running", "done"} =>
           /\ LinesOf(full_output) # <<>> =>
                  LinesOf(full_output)[1].row_id = <<"0", "0", "1">>
           /\ MarkersOf(full_output) # <<>> =>
                  MarkersOf(full_output)[1].v_id = <<"0", "0", "1">>
    /\ pc = "done" =>
           output = OutputFrom(pdf, 0, 0, 0, x_tolerance, y_tolerance, mask_numbers)

\* The second run on the object has returned rows and markers.
C8_Witness ==
    /\ runs = 2
    /\ pc = "done"
    /\ LinesOf(output) # <<>>
    /\ MarkersOf(output) # <<>>

MaxTop(row) == CHOOSE t \in {row[k].top : k \in 1..Len(row)} :
                  \A k \in 1..Len(row) : FLessEq(row[k].top, t)

\* C9 as stated: the reference is the top of the row's first member only, and a
\* row can accumulate drift up to (n - 1) * y_tolerance: n words whose tops step
\* by y_tolerance end up in one row, which then holds a word whose top is
\* farther than y_tolerance from the top of the row's first member.
C9_RowCanDrift ==
    LET sorted == SortByTopX0(LastWords)
    IN  (/\ PageDone
         /\ FGreater(y_tolerance, FromInt(0))
         /\ Len(sorted) >= 3
         /\ \A k \in 1..(Len(sorted) - 1) :
                FSub(sorted[k + 1].top, sorted[k].top) = y_tolerance) =>
            \E r \in 1..Len(rows) : \E k \in 1..Len(rows[r]) :
                FGreater(FAbsDiff(rows[r][k].top, MinTop(rows[r])), y_tolerance)

\* C9 as amended: the reference is the top of the word that opened the row (the
\* least top of the row), so the top of every word of a row is within
\* y_tolerance of it (by the float difference of line 44) and no drift builds
\* up; a word farther than y_tolerance from it opens the next row, even when
\* it is within y_tolerance of the word before it.
C9_RowWithinToleranceOfOpener ==
    PageDone =>
        /\ \A r \in 1..Len(rows) : \A k \in 1..Len(rows[r]) :
               FLessEq(FAbsDiff(rows[r][k].top, MinTop(rows[r])), y_tolerance)
        /\ \A r \in 1..(Len(rows) - 1) :
               FGreater(FAbsDiff(MinTop(rows[r + 1]), MinTop(rows[r])), y_tolerance)

\* A row of two words is followed by a row whose opener is within y_tolerance
\* of the last word of the row before it.
C9_Witness ==
    /\ PageDone
    /\ FGreater(y_tolerance, FromInt(0))
    /\ \E r \in 1..(Len(rows) - 1) :
           /\ Len(rows[r]) >= 2
           /\ FGreater(MaxTop(rows[r]), MinTop(rows[r]))
           /\ FLessEq(FAbsDiff(MinTop(rows[r + 1]), MaxTop(rows[r])), y_tolerance)

\* C10: on every page each word's x0 is within x_tolerance of a baseline of
\* the page, so the fallback to column 1 is not taken; the baseline at the
\* emitted column index is within x_tolerance of the word's x0, and the index
\* is between 1 and the column count of the page's header.
C10_ColumnOfPageWordQualifies ==
    PageDone =>
        /\ LastEntry.columns = Len(col_baselines)
        /\ Len(LastEntry.lines) = Len(rows)
        /\ \A r \in 1..Len(rows) : \A k \in 1..Len(rows[r]) :
               LET x   == rows[r][k].x0
                   col == LastEntry.lines[r].frags[k].col_idx
               IN  /\ \E j \in 1..Len(col_baselines) :
                          FLessEq(FAbsDiff(x, col_baselines[j]), x_tolerance)
                   /\ col \in 1..LastEntry.columns
                   /\ FLessEq(FAbsDiff(x, col_baselines[col]), x_tolerance)

====
